---- MODULE Spec2Model ----
(***************************************************************************)
(* A model of ssd.py: prior-box generation (generate_prior_boxes), target  *)
(* assignment (calculate_actual_outputs) and the two SSD losses            *)
(* (loc_loss_fn, conf_loss_fn).                                            *)
(*                                                                         *)
(* Numbers.  The program computes in floating point.  The model computes   *)
(* in fixed point: the integer n stands for the real n / Unit.  Unit is a  *)
(* multiple of 2*S for every feature-map side S the model draws and of     *)
(* 10*(m-1) for every number m of feature maps it draws, so cell centres,  *)
(* strides, the scale constants and the scale steps are exact; square      *)
(* roots and the other quotients are rounded down to the grid, as the      *)
(* program rounds them to the nearest float.                               *)
(***************************************************************************)
EXTENDS Integers, Sequences, FiniteSets

\* Bounds of the model.
MaxMaps == 2
MaxShape == 2
\* Ground-truth entries (images times boxes per image) of one batch.
MaxGtCells == 3
\* Priors (images times priors per image) of one batch given to the losses.
MaxLossCells == 5

\* Resolution of the fixed-point grid: 1.0 is Unit.
Unit == 24 * 100

VARIABLES
    feature_map_shapes,  \* argument of generate_prior_boxes
    aspect_ratios,       \* argument of generate_prior_boxes
    prior_status,        \* "unused", "pending", "returned" or "raised"
    prior_error,         \* the exception generate_prior_boxes raised, or "none"
    concatenated,        \* np.concatenate(prior_boxes) of line 307, before the clip
    prior_boxes,         \* the value generate_prior_boxes returned
    gt_boxes,            \* (batch_size, gt_box_size, [y1, x1, y2, x2])
    gt_labels,           \* (batch_size, gt_box_size)
    hyper_params,        \* total_labels, iou_threshold, variances
    target_status,       \* "unused", "pending" or "computed"
    actual_bbox_deltas,  \* bbox_deltas returned by calculate_actual_outputs
    actual_labels,       \* bbox_labels returned by calculate_actual_outputs
    pred_bbox_deltas,    \* argument of loc_loss_fn
    conf_loss_for_all,   \* cross-entropy of every prior (line 44)
    loc_status,          \* "unused", "pending" or "done"
    loc_pos_cond,        \* pos_cond of loc_loss_fn (line 19)
    loc_loss,            \* the value loc_loss_fn returned
    conf_status,         \* "unused", "pending" or "done"
    conf_pos_cond,       \* pos_cond of conf_loss_fn (line 46)
    neg_bbox_indices,    \* the hard negatives conf_loss_fn selected (line 58)
    conf_loss            \* the value conf_loss_fn returned

priorVars == <<feature_map_shapes, aspect_ratios, prior_status, prior_error,
               concatenated, prior_boxes>>

targetVars == <<gt_boxes, gt_labels, hyper_params, target_status,
                actual_bbox_deltas, actual_labels>>

lossVars == <<pred_bbox_deltas, conf_loss_for_all, loc_status, loc_pos_cond, loc_loss,
              conf_status, conf_pos_cond, neg_bbox_indices, conf_loss>>

vars == <<priorVars, targetVars, lossVars>>

---------------------------------------------------------------------------
\* Sequence helpers.

RECURSIVE SumSeq(_)
SumSeq(s) ==
    IF s = <<>> THEN 0 ELSE Head(s) + SumSeq(Tail(s))

RECURSIVE Flatten(_)
Flatten(ss) ==
    IF ss = <<>> THEN <<>> ELSE Head(ss) \o Flatten(Tail(ss))

SeqsUpTo(S, n) ==
    UNION {[1..k -> S] : k \in 0..n}

---------------------------------------------------------------------------
\* Fixed-point arithmetic.

\* x / y for fixed-point x and y (y # 0).
FDiv(x, y) ==
    (x * Unit) \div y

\* x * y for fixed-point x and y.
FMul(x, y) ==
    (x * y) \div Unit

\* The largest r with r * r <= n, by bisection on lo <= r < hi.
RECURSIVE ISqrtBetween(_, _, _)
ISqrtBetween(n, lo, hi) ==
    IF hi - lo <= 1 THEN lo
    ELSE LET mid == (lo + hi) \div 2
         IN  IF mid * mid <= n THEN ISqrtBetween(n, mid, hi)
             ELSE ISqrtBetween(n, lo, mid)

\* The search stays below 46341, whose square no longer fits 32 bits.
ISqrt(n) ==
    ISqrtBetween(n, 0, IF n + 1 < 46341 THEN n + 1 ELSE 46341)

\* math.sqrt of a fixed-point x >= 0: sqrt(x / Unit) * Unit = sqrt(x * Unit).
Sqrt(x) ==
    ISqrt(x * Unit)

---------------------------------------------------------------------------
\* Float results that may be NaN or infinite.

Number(x) ==
    [kind |-> "number", value |-> x]

NaN ==
    [kind |-> "nan", value |-> 0]

Infinity ==
    [kind |-> "inf", value |-> 0]

\* The loss of a call that has not returned yet.
NoValue ==
    [kind |-> "none", value |-> 0]

\* total / count for a float total and a float count holding an integer:
\* 0 / 0 is NaN, x / 0 is infinite.
FloatDivide(total, count) ==
    IF count # 0 THEN Number(total \div count)
    ELSE IF total = 0 THEN NaN
    ELSE Infinity

---------------------------------------------------------------------------
\* get_scale_for_nth_feature_map and its defaults.

scale_min ==
    (2 * Unit) \div 10

scale_max ==
    (9 * Unit) \div 10

\* scale_min + ((scale_max - scale_min) / (m - 1)) * (k - 1); the caller has
\* checked m # 1 (ScaleRaises).
get_scale_for_nth_feature_map(k, m) ==
    scale_min + ((scale_max - scale_min) \div (m - 1)) * (k - 1)

\* The division by m - 1 raises ZeroDivisionError when m = 1.
ScaleRaises(m) ==
    m = 1

---------------------------------------------------------------------------
\* get_height_width_pairs.

\* The exception the loop body raises for one aspect ratio: math.sqrt of a
\* negative number is a ValueError, current_scale / math.sqrt(0) a
\* ZeroDivisionError.
RatioError(aspect_ratio) ==
    IF aspect_ratio < 0 THEN "ValueError"
    ELSE IF Sqrt(aspect_ratio) = 0 THEN "ZeroDivisionError"
    ELSE "none"

\* The first exception of the loop over aspect_ratios, in list order.
RECURSIVE FirstRatioError(_)
FirstRatioError(ratios) ==
    IF ratios = <<>> THEN "none"
    ELSE IF RatioError(Head(ratios)) # "none" THEN RatioError(Head(ratios))
    ELSE FirstRatioError(Tail(ratios))

\* (height, width) of one aspect ratio at scale current_scale.
HeightWidth(current_scale, aspect_ratio) ==
    <<FDiv(current_scale, Sqrt(aspect_ratio)), FMul(current_scale, Sqrt(aspect_ratio))>>

\* The extra pair for ratio 1: height = width = sqrt(current * next).
ExtraPair(current_scale, next_scale) ==
    <<ISqrt(current_scale * next_scale), ISqrt(current_scale * next_scale)>>

\* [error, pairs]: the pairs in the order of aspect_ratios, the extra pair last.
get_height_width_pairs(ratios, feature_map_index, total_feature_map) ==
    IF ScaleRaises(total_feature_map)
    THEN [error |-> "ZeroDivisionError", pairs |-> <<>>]
    ELSE IF FirstRatioError(ratios) # "none"
    THEN [error |-> FirstRatioError(ratios), pairs |-> <<>>]
    ELSE LET current_scale ==
                 get_scale_for_nth_feature_map(feature_map_index, total_feature_map)
             next_scale ==
                 get_scale_for_nth_feature_map(feature_map_index + 1, total_feature_map)
         IN  [error |-> "none",
              pairs |-> [j \in 1..Len(ratios) |-> HeightWidth(current_scale, ratios[j])]
                        \o <<ExtraPair(current_scale, next_scale)>>]

---------------------------------------------------------------------------
\* generate_base_prior_boxes.

\* One base box [y_min, x_min, y_max, x_max] around center = stride / 2.
BaseBox(center, height_width) ==
    LET height == height_width[1]
        width == height_width[2]
    IN  <<center - height \div 2, center - width \div 2,
          center + height \div 2, center + width \div 2>>

generate_base_prior_boxes(stride, height_width_pairs) ==
    [j \in 1..Len(height_width_pairs) |-> BaseBox(stride \div 2, height_width_pairs[j])]

---------------------------------------------------------------------------
\* generate_prior_boxes.

\* GridRow with the cells taken column by column (grid_x and grid_y swapped).
GridRowColumnMajor(c, feature_map_shape) ==
    LET y == FDiv((c % feature_map_shape) * Unit, feature_map_shape * Unit)
        x == FDiv((c \div feature_map_shape) * Unit, feature_map_shape * Unit)
    IN  <<y, x, y, x>>

\* Row c (0-based) of grid_map: meshgrid and ravel make cell c the cell of
\* row c div S and column c mod S; the row is (y, x, y, x) / S.
GridRow(c, feature_map_shape) ==
    LET y == FDiv((c \div feature_map_shape) * Unit, feature_map_shape * Unit)
        x == FDiv((c % feature_map_shape) * Unit, feature_map_shape * Unit)
    IN  <<y, x, y, x>>

AddBox(a, b) ==
    [d \in 1..4 |-> a[d] + b[d]]

\* Entry n (1-based) of the (output_area * prior_box_count, 4) reshape of
\* base_prior_boxes (1, count, 4) + grid_map (area, 1, 4): cell-major.
BoxAt(n, base_prior_boxes, feature_map_shape, prior_box_count) ==
    AddBox(base_prior_boxes[((n - 1) % prior_box_count) + 1],
           GridRow((n - 1) \div prior_box_count, feature_map_shape))

\* One iteration of the loop of generate_prior_boxes (lines 292-305).
prior_boxes_for_feature_map(feature_map_shape, prior_box_count, height_width_pairs) ==
    LET base_prior_boxes ==
            generate_base_prior_boxes(FDiv(Unit, feature_map_shape * Unit), height_width_pairs)
        output_area == feature_map_shape * feature_map_shape
    IN  [n \in 1..(output_area * prior_box_count) |->
            BoxAt(n, base_prior_boxes, feature_map_shape, prior_box_count)]

\* ClipCoord without the lower limit.
ClipCoordUpperOnly(x) ==
    IF x > Unit THEN Unit ELSE x

\* np.clip(x, 0, 1) of one coordinate.
ClipCoord(x) ==
    IF x < 0 THEN 0 ELSE IF x > Unit THEN Unit ELSE x

Clip(boxes) ==
    [n \in 1..Len(boxes) |-> [d \in 1..4 |-> ClipCoord(boxes[n][d])]]

\* The exception of loop iteration i (1-based): aspect_ratios[i] is an
\* IndexError past the end of the list, then get_height_width_pairs may raise.
IterationError(shapes, ratios, i) ==
    IF i > Len(ratios) THEN "IndexError"
    ELSE get_height_width_pairs(ratios[i], i, Len(shapes)).error

\* The first iteration that raises, or 0.
RECURSIVE FirstFailing(_, _, _)
FirstFailing(shapes, ratios, i) ==
    IF i > Len(shapes) THEN 0
    ELSE IF IterationError(shapes, ratios, i) # "none" THEN i
    ELSE FirstFailing(shapes, ratios, i + 1)

\* [status, error, concatenated, boxes] of a call.  np.concatenate of an
\* empty list raises ValueError.
generate_prior_boxes(shapes, ratios) ==
    LET failing == FirstFailing(shapes, ratios, 1)
    IN  IF failing # 0
        THEN [status |-> "raised", error |-> IterationError(shapes, ratios, failing),
              concatenated |-> <<>>, boxes |-> <<>>]
        ELSE IF shapes = <<>>
        THEN [status |-> "raised", error |-> "ValueError",
              concatenated |-> <<>>, boxes |-> <<>>]
        ELSE LET all == Flatten([i \in 1..Len(shapes) |->
                            prior_boxes_for_feature_map(shapes[i], Len(ratios[i]) + 1,
                                get_height_width_pairs(ratios[i], i, Len(shapes)).pairs)])
             IN  [status |-> "returned", error |-> "none",
                  concatenated |-> all, boxes |-> Clip(all)]

---------------------------------------------------------------------------
\* Inputs of generate_prior_boxes.

\* The target variables of a run that never calls calculate_actual_outputs.
TargetsUnused ==
    /\ gt_boxes = <<>>
    /\ gt_labels = <<>>
    /\ hyper_params = [total_labels |-> 0, iou_threshold |-> 0, variances |-> <<>>]
    /\ target_status = "unused"
    /\ actual_bbox_deltas = <<>>
    /\ actual_labels = <<>>

\* The loss variables of a run that never calls the losses.
LossUnused ==
    /\ pred_bbox_deltas = <<>>
    /\ conf_loss_for_all = <<>>
    /\ loc_status = "unused"
    /\ loc_pos_cond = <<>>
    /\ loc_loss = NoValue
    /\ conf_status = "unused"
    /\ conf_pos_cond = <<>>
    /\ neg_bbox_indices = <<>>
    /\ conf_loss = NoValue

\* Aspect-ratio lists: none, one, several, a zero and a negative ratio.
RatioLists ==
    {<<>>, <<Unit>>, <<2 * Unit, Unit \div 2>>, <<0>>, <<Unit, -Unit>>}

FeatureMapShapeLists ==
    SeqsUpTo(1..MaxShape, MaxMaps)

AspectRatioLists ==
    SeqsUpTo(RatioLists, MaxMaps + 1)

InitPriors ==
    /\ feature_map_shapes \in FeatureMapShapeLists
    /\ aspect_ratios \in AspectRatioLists
    /\ prior_status = "pending"
    /\ prior_error = "none"
    /\ concatenated = <<>>
    /\ prior_boxes = <<>>
    /\ TargetsUnused
    /\ LossUnused

GeneratePriorBoxes ==
    /\ prior_status = "pending"
    /\ LET call == generate_prior_boxes(feature_map_shapes, aspect_ratios)
       IN  /\ prior_status' = call.status
           /\ prior_error' = call.error
           /\ concatenated' = call.concatenated
           /\ prior_boxes' = call.boxes
    /\ UNCHANGED <<feature_map_shapes, aspect_ratios, targetVars, lossVars>>

NextPriors ==
    GeneratePriorBoxes

SpecPriors ==
    InitPriors /\ [][NextPriors]_vars

---------------------------------------------------------------------------
\* helpers.py (generate_iou_map, get_selected_indices, get_deltas_from_bboxes)
\* is not among the sources; these operators follow section 4.2 of the
\* specification.

Max(a, b) ==
    IF a >= b THEN a ELSE b

Min(a, b) ==
    IF a <= b THEN a ELSE b

ZeroBox ==
    <<0, 0, 0, 0>>

Area(box) ==
    FMul(Max(box[3] - box[1], 0), Max(box[4] - box[2], 0))

IntersectionArea(p, g) ==
    FMul(Max(Min(p[3], g[3]) - Max(p[1], g[1]), 0),
         Max(Min(p[4], g[4]) - Max(p[2], g[2]), 0))

\* intersection / (area_p + area_g - intersection), 0 where the boxes do not
\* overlap (and for two boxes without area).
IoU(p, g) ==
    LET inter == IntersectionArea(p, g)
        union == Area(p) + Area(g) - inter
    IN  IF inter = 0 \/ union = 0 THEN 0 ELSE FDiv(inter, union)

\* The largest IoU of prior p over the ground-truth boxes gts of one image.
RECURSIVE MaxIoU(_, _)
MaxIoU(p, gts) ==
    IF gts = <<>> THEN 0 ELSE Max(IoU(p, Head(gts)), MaxIoU(p, Tail(gts)))

\* The first ground-truth box (1-based) whose IoU with p is the largest.
ArgMaxIoU(p, gts) ==
    CHOOSE g \in 1..Len(gts) :
        /\ IoU(p, gts[g]) = MaxIoU(p, gts)
        /\ \A h \in 1..(g - 1) : IoU(p, gts[h]) < MaxIoU(p, gts)

\* Positive match: the largest IoU exceeds iou_threshold.
PositiveMatch(p, gts, iou_threshold) ==
    MaxIoU(p, gts) > iou_threshold

\* All (image, prior) index pairs in row-major order, as tf.where lists them.
AllIndices(batch_size, total) ==
    [k \in 1..(batch_size * total) |-> <<((k - 1) \div total) + 1, ((k - 1) % total) + 1>>]

\* pos_bbox_indices = the (image, prior) pairs of the positive matches;
\* gt_box_indices = for each of them (image, best ground-truth box).
get_selected_indices(priors, boxes, iou_threshold) ==
    LET IsPos(ix) == PositiveMatch(priors[ix[2]], boxes[ix[1]], iou_threshold)
        pos == SelectSeq(AllIndices(Len(boxes), Len(priors)), IsPos)
    IN  [pos_bbox_indices |-> pos,
         gt_box_indices |-> [k \in 1..Len(pos) |->
                                <<pos[k][1], ArgMaxIoU(priors[pos[k][2]], boxes[pos[k][1]])>>]]

\* ln x by the first term of ln x = 2 artanh((x - 1) / (x + 1)): zero at 1,
\* increasing, of the sign of x - 1.
Ln(x) ==
    FDiv(2 * (x - Unit), x + Unit)

\* delta = encode(prior, gt); the all-zero box of an unmatched prior encodes
\* to (0, 0, 0, 0).
get_deltas_from_bboxes(prior, gt) ==
    LET prior_height == prior[3] - prior[1]
        prior_width == prior[4] - prior[2]
        prior_center_y == prior[1] + prior_height \div 2
        prior_center_x == prior[2] + prior_width \div 2
        gt_height == gt[3] - gt[1]
        gt_width == gt[4] - gt[2]
        gt_center_y == gt[1] + gt_height \div 2
        gt_center_x == gt[2] + gt_width \div 2
    IN  IF gt = ZeroBox THEN <<0, 0, 0, 0>>
        ELSE <<FDiv(gt_center_y - prior_center_y, prior_height),
               FDiv(gt_center_x - prior_center_x, prior_width),
               Ln(FDiv(gt_height, prior_height)),
               Ln(FDiv(gt_width, prior_width))>>

---------------------------------------------------------------------------
\* calculate_actual_outputs.

\* tf.gather_nd(tensor, indices) for (image, column) indices.
gather_nd(tensor, indices) ==
    [k \in 1..Len(indices) |-> tensor[indices[k][1]][indices[k][2]]]

\* The tensor `base` (batch, total) with updates[k] written at indices[k];
\* the indices come from tf.where and do not repeat.
ScatterInto(base, indices, updates) ==
    [b \in 1..Len(base) |->
        [n \in 1..Len(base[b]) |->
            IF \E k \in 1..Len(indices) : indices[k] = <<b, n>>
            THEN updates[CHOOSE k \in 1..Len(indices) : indices[k] = <<b, n>>]
            ELSE base[b][n]]]

\* tf.fill((batch_size, total), value).
Fill(batch_size, total, value) ==
    [b \in 1..batch_size |-> [n \in 1..total |-> value]]

\* tf.scatter_nd(indices, updates, (batch_size, total, 4)): zeros elsewhere.
scatter_nd(indices, updates, batch_size, total) ==
    ScatterInto(Fill(batch_size, total, ZeroBox), indices, updates)

\* tensor_scatter_nd_update that leaves the tensor as it was.
NoScatterUpdate(tensor, indices, updates) ==
    tensor

\* tf.tensor_scatter_nd_update(tensor, indices, updates).
tensor_scatter_nd_update(tensor, indices, updates) ==
    ScatterInto(tensor, indices, updates)

\* tf.one_hot(label, depth): a label outside 0..depth-1 gives an all-zero row.
one_hot(label, depth) ==
    [c \in 1..depth |-> IF c - 1 = label THEN 1 ELSE 0]

\* The index the program fills the label tensor with: the first class.
BackgroundFillFirst(total_labels) ==
    0

\* The index the program fills the label tensor with (line 357).
BackgroundFill(total_labels) ==
    total_labels - 1

\* delta / variances, element-wise.
DivVariances(delta, variances) ==
    [d \in 1..4 |-> FDiv(delta[d], variances[d])]

\* [bbox_deltas, bbox_labels] (lines 344-361).
calculate_actual_outputs(priors, boxes, labels, params) ==
    LET batch_size == Len(boxes)
        total_labels == params.total_labels
        total_prior_boxes == Len(priors)
        selected == get_selected_indices(priors, boxes, params.iou_threshold)
        pos_bbox_indices == selected.pos_bbox_indices
        gt_box_indices == selected.gt_box_indices
        gt_boxes_map == gather_nd(boxes, gt_box_indices)
        expanded_gt_boxes ==
            scatter_nd(pos_bbox_indices, gt_boxes_map, batch_size, total_prior_boxes)
        pos_gt_labels_map ==
            [k \in 1..Len(gt_box_indices) |->
                one_hot(gather_nd(labels, gt_box_indices)[k], total_labels)]
        background ==
            Fill(batch_size, total_prior_boxes,
                 one_hot(BackgroundFill(total_labels), total_labels))
    IN  [bbox_deltas |->
            [b \in 1..batch_size |->
                [n \in 1..total_prior_boxes |->
                    DivVariances(get_deltas_from_bboxes(priors[n], expanded_gt_boxes[b][n]),
                                 params.variances)]],
         bbox_labels |->
            tensor_scatter_nd_update(background, pos_bbox_indices, pos_gt_labels_map)]

---------------------------------------------------------------------------
\* Inputs of calculate_actual_outputs.

\* Valid configurations with few priors.
TargetConfigs ==
    {[shapes |-> <<1, 1>>, ratios |-> << <<>>, <<>> >>],
     [shapes |-> <<1, 1>>, ratios |-> << <<2 * Unit>>, <<>> >>],
     [shapes |-> <<2, 1>>, ratios |-> << <<>>, <<>> >>]}

\* Ground-truth boxes: the upper half of the image, its upper three
\* quarters, and a box equal to the first prior of the first configuration.
RealGtBoxes ==
    {<<0, 0, Unit \div 2, Unit>>,
     <<0, 0, (3 * Unit) \div 4, Unit>>,
     generate_prior_boxes(<<1, 1>>, << <<>>, <<>> >>).boxes[1]}

\* The object classes of the data set; the background is one class more.
ObjectClasses ==
    {0, 1}

TotalLabels ==
    Cardinality(ObjectClasses) + 1

\* One ground-truth entry: a real box with an object class, or the padding
\* of padded_batch (an all-zero box with label -1).
GtEntries ==
    {[box |-> bx, label |-> l] : bx \in RealGtBoxes, l \in ObjectClasses}
        \cup {[box |-> ZeroBox, label |-> -1]}

\* (batch_size, gt_box_size) with at most MaxGtCells entries.
GtShapes ==
    {sh \in (1..MaxGtCells) \X (1..MaxGtCells) : sh[1] * sh[2] <= MaxGtCells}

GtBatches ==
    UNION {[1..sh[1] -> [1..sh[2] -> GtEntries]] : sh \in GtShapes}

IouThresholds ==
    {Unit \div 2}

Variances ==
    <<Unit \div 10, Unit \div 10, Unit \div 5, Unit \div 5>>

InitTargets ==
    /\ \E config \in TargetConfigs :
        /\ feature_map_shapes = config.shapes
        /\ aspect_ratios = config.ratios
    /\ prior_status = "pending"
    /\ prior_error = "none"
    /\ concatenated = <<>>
    /\ prior_boxes = <<>>
    /\ \E batch \in GtBatches :
        /\ gt_boxes = [b \in 1..Len(batch) |-> [g \in 1..Len(batch[b]) |-> batch[b][g].box]]
        /\ gt_labels = [b \in 1..Len(batch) |-> [g \in 1..Len(batch[b]) |-> batch[b][g].label]]
    /\ \E t \in IouThresholds :
        hyper_params = [total_labels |-> TotalLabels, iou_threshold |-> t,
                        variances |-> Variances]
    /\ target_status = "pending"
    /\ actual_bbox_deltas = <<>>
    /\ actual_labels = <<>>
    /\ LossUnused

\* The generator's call (line 326) on the priors of generate_prior_boxes.
CalculateActualOutputs ==
    /\ prior_status = "returned"
    /\ target_status = "pending"
    /\ LET call == calculate_actual_outputs(prior_boxes, gt_boxes, gt_labels, hyper_params)
       IN  /\ actual_bbox_deltas' = call.bbox_deltas
           /\ actual_labels' = call.bbox_labels
    /\ target_status' = "computed"
    /\ UNCHANGED <<priorVars, gt_boxes, gt_labels, hyper_params, lossVars>>

NextTargets ==
    \/ GeneratePriorBoxes
    \/ CalculateActualOutputs

SpecTargets ==
    InitTargets /\ [][NextTargets]_vars

---------------------------------------------------------------------------
\* The guarded mean of both losses.

\* loss / total_pos_bboxes without the tf.where that guards it.
UnguardedMean(loss, total_pos_bboxes) ==
    FloatDivide(loss, total_pos_bboxes)

\* tf.where(tf.not_equal(total_pos_bboxes, 0), loss / total_pos_bboxes, 0.0)
\* (lines 30 and 65).
GuardedMean(loss, total_pos_bboxes) ==
    IF total_pos_bboxes # 0 THEN FloatDivide(loss, total_pos_bboxes) ELSE Number(0)

\* The entries <<b, n>> of a (batch, total) tensor of booleans that are
\* true, in row-major order (tf.where).
Where(cond) ==
    LET total == IF cond = <<>> THEN 0 ELSE Len(cond[1])
    IN  SelectSeq(AllIndices(Len(cond), total), LAMBDA ix : cond[ix[1]][ix[2]])

\* tf.math.count_nonzero(cond, axis=1) for one image.
RECURSIVE CountTrue(_)
CountTrue(row) ==
    IF row = <<>> THEN 0
    ELSE (IF Head(row) THEN 1 ELSE 0) + CountTrue(Tail(row))

---------------------------------------------------------------------------
\* loc_loss_fn.

Abs(x) ==
    IF x < 0 THEN -x ELSE x

\* Huber loss of one component, delta = 1.0: 0.5 * e^2 for |e| <= 1, else
\* |e| - 0.5.
HuberElement(y_true, y_pred) ==
    LET error == y_pred - y_true
    IN  IF Abs(error) <= Unit THEN FMul(error, error) \div 2
        ELSE Abs(error) - Unit \div 2

\* The loss of one box: the mean over its four components.
HuberBox(y_true, y_pred) ==
    SumSeq([d \in 1..4 |-> HuberElement(y_true[d], y_pred[d])]) \div 4

\* pos_cond of line 19: some component of the delta is not 0.
LocPosCond(deltas) ==
    [b \in 1..Len(deltas) |->
        [n \in 1..Len(deltas[b]) |-> \E d \in 1..4 : deltas[b][n][d] # 0]]

loc_loss_fn(actual_deltas, pred_deltas) ==
    LET pos_cond == LocPosCond(actual_deltas)
        pos_bbox_indices == Where(pos_cond)
        total_pos_bboxes == SumSeq([b \in 1..Len(pos_cond) |-> CountTrue(pos_cond[b])])
        y_true_bbox == gather_nd(actual_deltas, pos_bbox_indices)
        y_pred_bbox == gather_nd(pred_deltas, pos_bbox_indices)
        loc_loss_sum ==
            SumSeq([k \in 1..Len(pos_bbox_indices) |-> HuberBox(y_true_bbox[k], y_pred_bbox[k])])
    IN  GuardedMean(loc_loss_sum, total_pos_bboxes)

---------------------------------------------------------------------------
\* conf_loss_fn.  The predictions enter as conf_loss_for_all, the categorical
\* cross-entropy of each prior (line 44), a number >= 0.

\* float("-inf") of line 52: below every cross-entropy.
NegInf == -1

\* The first entry of the label row is not 1.
ConfPosCondFirst(labels) ==
    [b \in 1..Len(labels) |->
        [n \in 1..Len(labels[b]) |-> labels[b][n][1] # 1]]

\* pos_cond of line 46: the last entry of the label row is not 1.
ConfPosCond(labels) ==
    [b \in 1..Len(labels) |->
        [n \in 1..Len(labels[b]) |-> labels[b][n][Len(labels[b][n])] # 1]]

\* tf.where(pos_cond, -inf, conf_loss_for_all) for one image.
MaskedLoss(pos_row, loss_row) ==
    [n \in 1..Len(loss_row) |-> IF pos_row[n] THEN NegInf ELSE loss_row[n]]

\* The indices of `among` by ascending value: the sort without
\* direction="DESCENDING".
RECURSIVE ArgsortAscending(_, _)
ArgsortAscending(row, among) ==
    IF among = {} THEN <<>>
    ELSE LET least == CHOOSE i \in among :
                          \A j \in among : row[i] < row[j] \/ (row[i] = row[j] /\ i <= j)
         IN  <<least>> \o ArgsortAscending(row, among \ {least})

\* The indices of `among` by descending value, equal values by ascending
\* index (tf.argsort sorts with top_k, which lists the lower index first).
RECURSIVE ArgsortDescending(_, _)
ArgsortDescending(row, among) ==
    IF among = {} THEN <<>>
    ELSE LET best == CHOOSE i \in among :
                         \A j \in among : row[i] > row[j] \/ (row[i] = row[j] /\ i <= j)
         IN  <<best>> \o ArgsortDescending(row, among \ {best})

\* neg_bbox_indices of line 58: for each image the first
\* neg_bbox_indices_count entries of its sorted indices.
NegBboxIndices(sorted_loss, neg_bbox_indices_count) ==
    LET neg_cond ==
            [b \in 1..Len(sorted_loss) |->
                [k \in 1..Len(sorted_loss[b]) |-> (k - 1) < neg_bbox_indices_count[b]]]
        taken == Where(neg_cond)
    IN  [t \in 1..Len(taken) |-> <<taken[t][1], sorted_loss[taken[t][1]][taken[t][2]]>>]

\* [neg_bbox_indices, conf_loss] of a call.
conf_loss_fn(labels, loss_for_all) ==
    LET pos_cond == ConfPosCond(labels)
        pos_bbox_indices == Where(pos_cond)
        pos_bbox_count == [b \in 1..Len(pos_cond) |-> CountTrue(pos_cond[b])]
        neg_bbox_indices_count == [b \in 1..Len(pos_cond) |-> pos_bbox_count[b] * 3]
        sorted_loss ==
            [b \in 1..Len(labels) |->
                ArgsortDescending(MaskedLoss(pos_cond[b], loss_for_all[b]),
                                  1..Len(loss_for_all[b]))]
        neg_indices == NegBboxIndices(sorted_loss, neg_bbox_indices_count)
        total_pos_bboxes == SumSeq(pos_bbox_count)
        selected_indices == pos_bbox_indices \o neg_indices
        conf_loss_sum == SumSeq(gather_nd(loss_for_all, selected_indices))
    IN  [neg_bbox_indices |-> neg_indices,
         conf_loss |-> GuardedMean(conf_loss_sum, total_pos_bboxes)]

---------------------------------------------------------------------------
\* Inputs of the losses.

\* The targets of one prior: background, a matched prior, and a matched
\* prior whose ground-truth box coincides with it (an all-zero delta).
TargetKinds ==
    {[delta |-> <<0, 0, 0, 0>>, label |-> one_hot(TotalLabels - 1, TotalLabels)],
     [delta |-> <<Unit \div 2, 0, -Unit, 0>>, label |-> one_hot(0, TotalLabels)],
     [delta |-> <<0, 0, 0, 0>>, label |-> one_hot(1, TotalLabels)]}

\* The predictions for one prior: the cross-entropy of the predicted labels
\* and the predicted delta.
Predictions ==
    {[ce |-> Unit \div 2, delta |-> <<0, 0, 0, 0>>],
     [ce |-> 2 * Unit, delta |-> <<2 * Unit, 0, 0, 0>>]}

\* (batch_size, total_prior_boxes) with at most MaxLossCells priors in all and
\* one or two images.
LossShapes ==
    {sh \in (1..2) \X (1..MaxLossCells) : sh[1] * sh[2] <= MaxLossCells}

LossBatches ==
    UNION {[1..sh[1] -> [1..sh[2] -> TargetKinds \X Predictions]] : sh \in LossShapes}

InitLoss ==
    /\ feature_map_shapes = <<>>
    /\ aspect_ratios = <<>>
    /\ prior_status = "unused"
    /\ prior_error = "none"
    /\ concatenated = <<>>
    /\ prior_boxes = <<>>
    /\ gt_boxes = <<>>
    /\ gt_labels = <<>>
    /\ hyper_params = [total_labels |-> TotalLabels, iou_threshold |-> 0, variances |-> <<>>]
    /\ target_status = "unused"
    /\ \E batch \in LossBatches :
        /\ actual_bbox_deltas =
               [b \in 1..Len(batch) |-> [n \in 1..Len(batch[b]) |-> batch[b][n][1].delta]]
        /\ actual_labels =
               [b \in 1..Len(batch) |-> [n \in 1..Len(batch[b]) |-> batch[b][n][1].label]]
        /\ pred_bbox_deltas =
               [b \in 1..Len(batch) |-> [n \in 1..Len(batch[b]) |-> batch[b][n][2].delta]]
        /\ conf_loss_for_all =
               [b \in 1..Len(batch) |-> [n \in 1..Len(batch[b]) |-> batch[b][n][2].ce]]
    /\ loc_status = "pending"
    /\ loc_pos_cond = <<>>
    /\ loc_loss = NoValue
    /\ conf_status = "pending"
    /\ conf_pos_cond = <<>>
    /\ neg_bbox_indices = <<>>
    /\ conf_loss = NoValue

LocLoss ==
    /\ loc_status = "pending"
    /\ loc_pos_cond' = LocPosCond(actual_bbox_deltas)
    /\ loc_loss' = loc_loss_fn(actual_bbox_deltas, pred_bbox_deltas)
    /\ loc_status' = "done"
    /\ UNCHANGED <<priorVars, targetVars, pred_bbox_deltas, conf_loss_for_all,
                   conf_status, conf_pos_cond, neg_bbox_indices, conf_loss>>

ConfLoss ==
    /\ conf_status = "pending"
    /\ LET call == conf_loss_fn(actual_labels, conf_loss_for_all)
       IN  /\ neg_bbox_indices' = call.neg_bbox_indices
           /\ conf_loss' = call.conf_loss
    /\ conf_pos_cond' = ConfPosCond(actual_labels)
    /\ conf_status' = "done"
    /\ UNCHANGED <<priorVars, targetVars, pred_bbox_deltas, conf_loss_for_all,
                   loc_status, loc_pos_cond, loc_loss>>

NextLoss ==
    \/ LocLoss
    \/ ConfLoss

SpecLoss ==
    InitLoss /\ [][NextLoss]_vars

---------------------------------------------------------------------------
\* A training step: the targets the generator yields (line 327) and the
\* outputs of the model (line 214) are given to both losses.

\* The outputs of the model for the batch, the same prediction for every
\* prior: predicted deltas and the cross-entropy of the predicted labels.
ModelOutputs ==
    /\ target_status = "computed"
    /\ loc_status = "unused"
    /\ conf_status = "unused"
    /\ \E p \in Predictions :
        /\ pred_bbox_deltas' =
               [b \in 1..Len(actual_labels) |-> [n \in 1..Len(actual_labels[b]) |-> p.delta]]
        /\ conf_loss_for_all' =
               [b \in 1..Len(actual_labels) |-> [n \in 1..Len(actual_labels[b]) |-> p.ce]]
    /\ loc_status' = "pending"
    /\ conf_status' = "pending"
    /\ UNCHANGED <<priorVars, targetVars, loc_pos_cond, loc_loss,
                   conf_pos_cond, neg_bbox_indices, conf_loss>>

NextTraining ==
    \/ GeneratePriorBoxes
    \/ CalculateActualOutputs
    \/ ModelOutputs
    \/ LocLoss
    \/ ConfLoss

SpecTraining ==
    InitTargets /\ [][NextTraining]_vars

---------------------------------------------------------------------------
\* The three parts together.

Init ==
    \/ InitPriors
    \/ InitTargets
    \/ InitLoss

Next ==
    \/ GeneratePriorBoxes
    \/ CalculateActualOutputs
    \/ ModelOutputs
    \/ LocLoss
    \/ ConfLoss

Spec ==
    Init /\ [][Next]_vars

---------------------------------------------------------------------------
\* Properties of generate_prior_boxes (checked under SpecPriors).

Called ==
    prior_status \in {"returned", "raised"}

Returned ==
    prior_status = "returned"

\* sum over i of S_i^2 * (len(aspect_ratios_i) + 1).
ExpectedCount ==
    SumSeq([i \in 1..Len(feature_map_shapes) |->
               feature_map_shapes[i] * feature_map_shapes[i] * (Len(aspect_ratios[i]) + 1)])

\* Some aspect ratio of the configuration is <= 0.
SomeRatioNotPositive ==
    \E i \in 1..Len(aspect_ratios) :
        \E j \in 1..Len(aspect_ratios[i]) : aspect_ratios[i][j] <= 0

\* A configuration the specification accepts: at least one feature map, one
\* aspect-ratio list per feature map, every aspect ratio positive.
ValidConfig ==
    /\ Len(feature_map_shapes) >= 1
    /\ Len(aspect_ratios) = Len(feature_map_shapes)
    /\ ~SomeRatioNotPositive

\* C1: for every valid configuration the call returns
\* sum_i S_i^2 * (len(aspect_ratios_i) + 1) boxes.
C1_CountForEveryValidConfig ==
    (Called /\ ValidConfig) => (Returned /\ Len(prior_boxes) = ExpectedCount)

\* The part of C1 the program keeps: whenever the call returns, on a
\* configuration with one aspect-ratio list per feature map, the count is the sum.
CountWhenReturned ==
    (Returned /\ Len(aspect_ratios) = Len(feature_map_shapes))
        => Len(prior_boxes) = ExpectedCount

\* C2: every coordinate of every returned box lies in [0, 1].
C2_CoordinatesInUnitInterval ==
    Returned =>
        \A n \in 1..Len(prior_boxes) :
            \A d \in 1..4 : 0 <= prior_boxes[n][d] /\ prior_boxes[n][d] <= Unit

\* A call returned boxes of which the clip changed one coordinate below 0
\* and one above 1.
C2_Witness ==
    /\ Returned
    /\ \E n \in 1..Len(concatenated) : \E d \in 1..4 : concatenated[n][d] < 0
    /\ \E n \in 1..Len(concatenated) : \E d \in 1..4 : concatenated[n][d] > Unit

\* C7: the call fails, producing no boxes, whenever the two lists have
\* different lengths or some aspect ratio is <= 0.
C7_FailsOnBadConfig ==
    (Called /\ (Len(aspect_ratios) # Len(feature_map_shapes) \/ SomeRatioNotPositive))
        => (prior_status = "raised" /\ prior_boxes = <<>>)

\* C8: feature_map_shapes = [2], aspect_ratios = [[1.0]] returns 8 priors.
C8_SingleScaleReturnsEight ==
    (Called /\ feature_map_shapes = <<2>> /\ aspect_ratios = << <<Unit>> >>)
        => (Returned /\ Len(prior_boxes) = 8)

\* Number of boxes of the feature maps before feature map i.
RECURSIVE Offset(_)
Offset(i) ==
    IF i = 1 THEN 0
    ELSE Offset(i - 1)
         + feature_map_shapes[i - 1] * feature_map_shapes[i - 1] * (Len(aspect_ratios[i - 1]) + 1)

\* ((row + 0.5)/S - h/2, (col + 0.5)/S - w/2, (row + 0.5)/S + h/2, (col + 0.5)/S + w/2)
\* for the (h, w) of slot j (0-based) of feature map i.
FormulaBox(i, row, col, j) ==
    LET S == feature_map_shapes[i]
        hw == get_height_width_pairs(aspect_ratios[i], i, Len(feature_map_shapes)).pairs[j + 1]
        center_y == ((2 * row + 1) * Unit) \div (2 * S)
        center_x == ((2 * col + 1) * Unit) \div (2 * S)
    IN  <<center_y - hw[1] \div 2, center_x - hw[2] \div 2,
          center_y + hw[1] \div 2, center_x + hw[2] \div 2>>

\* C9: the box of feature map i, cell (row, col), slot j is at index
\* offset_i + (row*S + col)*(n+1) + j (0-based) and, before the clip, is the
\* box of the formula.
C9_LayoutAndFormula ==
    Returned =>
        \A i \in 1..Len(feature_map_shapes) :
            \A row \in 0..(feature_map_shapes[i] - 1), col \in 0..(feature_map_shapes[i] - 1) :
                \A j \in 0..Len(aspect_ratios[i]) :
                    LET index == Offset(i)
                                 + (row * feature_map_shapes[i] + col) * (Len(aspect_ratios[i]) + 1)
                                 + j
                    IN  /\ index + 1 <= Len(concatenated)
                        /\ concatenated[index + 1] = FormulaBox(i, row, col, j)

\* A call returned the boxes of two feature maps, the second with more than
\* one row and more than one slot per cell, after a first that has boxes.
C9_Witness ==
    /\ Returned
    /\ Len(feature_map_shapes) >= 2
    /\ feature_map_shapes[2] >= 2
    /\ Len(aspect_ratios[2]) >= 2
    /\ Len(concatenated) > Offset(2)

---------------------------------------------------------------------------
\* Properties of calculate_actual_outputs (checked under SpecTargets).

Computed ==
    target_status = "computed"

\* The background one-hot row: the last class.
BackgroundRow ==
    [c \in 1..hyper_params.total_labels |-> IF c = hyper_params.total_labels THEN 1 ELSE 0]

\* Prior n is matched in image b: its largest IoU exceeds the threshold.
Matched(b, n) ==
    PositiveMatch(prior_boxes[n], gt_boxes[b], hyper_params.iou_threshold)

\* The label of the ground-truth box prior n is matched to in image b.
MatchedLabel(b, n) ==
    gt_labels[b][ArgMaxIoU(prior_boxes[n], gt_boxes[b])]

\* The row holds exactly one 1, at position c (1-based), and 0 elsewhere.
OneHotAt(row, c) ==
    /\ c \in 1..Len(row)
    /\ \A k \in 1..Len(row) : row[k] = IF k = c THEN 1 ELSE 0

\* C5: every label row holds exactly one 1, at gt_label of the matched
\* ground-truth box for a matched prior and at total_labels - 1 for an
\* unmatched one; a row is the background row iff the prior is unmatched.
C5_LabelRows ==
    Computed =>
        /\ Len(actual_labels) = Len(gt_boxes)
        /\ \A b \in 1..Len(gt_boxes) :
            /\ Len(actual_labels[b]) = Len(prior_boxes)
            /\ \A n \in 1..Len(prior_boxes) :
                /\ Len(actual_labels[b][n]) = hyper_params.total_labels
                /\ Matched(b, n) => OneHotAt(actual_labels[b][n], MatchedLabel(b, n) + 1)
                /\ ~Matched(b, n) => OneHotAt(actual_labels[b][n], hyper_params.total_labels)
                /\ (actual_labels[b][n] = BackgroundRow) <=> ~Matched(b, n)

\* Targets were computed for an image in which one prior is matched to a
\* box of class 1, ahead of a second box of class 0 with the same IoU, and
\* another prior is unmatched.
C5_Witness ==
    /\ Computed
    /\ \E b \in 1..Len(gt_boxes) :
        /\ \E n \in 1..Len(prior_boxes) :
            /\ Matched(b, n)
            /\ MatchedLabel(b, n) = 1
            /\ \E g \in 1..Len(gt_boxes[b]) :
                /\ g # ArgMaxIoU(prior_boxes[n], gt_boxes[b])
                /\ gt_labels[b][g] = 0
                /\ IoU(prior_boxes[n], gt_boxes[b][g]) = MaxIoU(prior_boxes[n], gt_boxes[b])
        /\ \E n \in 1..Len(prior_boxes) : ~Matched(b, n)

\* Some ground-truth box of image b has an IoU with prior n above the threshold.
SomeIoUAbove(b, n) ==
    \E g \in 1..Len(gt_boxes[b]) :
        IoU(prior_boxes[n], gt_boxes[b][g]) > hyper_params.iou_threshold

\* C6: a prior is positive (its label row is not the background row) iff its
\* largest IoU strictly exceeds iou_threshold; otherwise it keeps the
\* background label and an all-zero delta.
C6_PositiveIffAboveThreshold ==
    Computed =>
        \A b \in 1..Len(gt_boxes) :
            \A n \in 1..Len(prior_boxes) :
                /\ (actual_labels[b][n] # BackgroundRow) <=> SomeIoUAbove(b, n)
                /\ ~SomeIoUAbove(b, n) =>
                       /\ actual_labels[b][n] = BackgroundRow
                       /\ actual_bbox_deltas[b][n] = <<0, 0, 0, 0>>

\* Targets were computed for a batch with an image of padding only, an
\* image where a prior's largest IoU equals the threshold, and an image
\* where a prior is matched.
C6_Witness ==
    /\ Computed
    /\ \E b \in 1..Len(gt_boxes) : \A g \in 1..Len(gt_boxes[b]) : gt_boxes[b][g] = ZeroBox
    /\ \E b \in 1..Len(gt_boxes) : \E n \in 1..Len(prior_boxes) :
           MaxIoU(prior_boxes[n], gt_boxes[b]) = hyper_params.iou_threshold
    /\ \E b \in 1..Len(gt_boxes) : \E n \in 1..Len(prior_boxes) :
           actual_labels[b][n] # BackgroundRow

---------------------------------------------------------------------------
\* Properties of loc_loss_fn and conf_loss_fn (checked under SpecLoss).

LocDone ==
    loc_status = "done"

ConfDone ==
    conf_status = "done"

\* Prior n of image b is positive for the confidence loss: its target is
\* not the background one-hot.
IsPositive(b, n) ==
    actual_labels[b][n] # BackgroundRow

PositiveCount(b) ==
    Cardinality({n \in 1..Len(actual_labels[b]) : IsPositive(b, n)})

\* The number of hard negatives selected in image b.
NegativeCount(b) ==
    Cardinality({t \in 1..Len(neg_bbox_indices) : neg_bbox_indices[t][1] = b})

\* C3: an image with P positives out of total_priors priors gets
\* min(3 * P, total_priors - P) hard negatives.
C3_HardNegativeCount ==
    ConfDone =>
        \A b \in 1..Len(actual_labels) :
            NegativeCount(b) =
                Min(3 * PositiveCount(b), Len(actual_labels[b]) - PositiveCount(b))

\* What the program selects instead: min(3 * P, total_priors) entries.
NegativeCountOfTheCode ==
    ConfDone =>
        \A b \in 1..Len(actual_labels) :
            NegativeCount(b) = Min(3 * PositiveCount(b), Len(actual_labels[b]))

\* No prior of the whole batch is positive: every delta is all-zero and
\* every label row is the background one-hot.
NoPositives ==
    \A b \in 1..Len(actual_labels) :
        \A n \in 1..Len(actual_labels[b]) :
            /\ actual_bbox_deltas[b][n] = <<0, 0, 0, 0>>
            /\ actual_labels[b][n] = BackgroundRow

\* C4: on a batch without positives both losses return exactly 0.0, not NaN.
C4_ZeroPositiveBatch ==
    /\ (LocDone /\ NoPositives) => loc_loss = Number(0)
    /\ (ConfDone /\ NoPositives) => conf_loss = Number(0)

\* Both losses were computed on a batch of two images without positives
\* whose predictions are not all perfect.
C4_Witness ==
    /\ LocDone
    /\ ConfDone
    /\ NoPositives
    /\ Len(actual_labels) = 2
    /\ \E b \in 1..Len(actual_labels) : \E n \in 1..Len(actual_labels[b]) :
           /\ conf_loss_for_all[b][n] > 0
           /\ pred_bbox_deltas[b][n] # <<0, 0, 0, 0>>

\* The positives and the selected negatives, as sets of (image, prior).
PositiveSet ==
    {ix \in UNION {{<<b, n>> : n \in 1..Len(actual_labels[b])} : b \in 1..Len(actual_labels)} :
        IsPositive(ix[1], ix[2])}

NegativeSet ==
    {neg_bbox_indices[t] : t \in 1..Len(neg_bbox_indices)}

\* The sum of the cross-entropy over a set of (image, prior).
RECURSIVE CrossEntropyOver(_)
CrossEntropyOver(set) ==
    IF set = {} THEN 0
    ELSE LET ix == CHOOSE x \in set : TRUE
         IN  conf_loss_for_all[ix[1]][ix[2]] + CrossEntropyOver(set \ {ix})

\* C10: no positive prior is selected as a hard negative, and the loss is
\* the cross-entropy summed over positives and selected negatives, each
\* prior once, divided by the number of positives of the batch.
C10_NegativesExcludePositives ==
    ConfDone =>
        /\ PositiveSet \cap NegativeSet = {}
        /\ conf_loss =
               IF PositiveSet = {} THEN Number(0)
               ELSE Number(CrossEntropyOver(PositiveSet \cup NegativeSet)
                               \div Cardinality(PositiveSet))

\* Prior n of image b was selected as a hard negative.
SelectedNegative(b, n) ==
    <<b, n>> \in NegativeSet

\* C11: the hard negatives of an image are its highest-loss background
\* priors: no background prior left unselected has a strictly larger
\* cross-entropy than a background prior of the same image selected as a
\* negative.
C11_HardestBackgroundSelected ==
    ConfDone =>
        \A b \in 1..Len(actual_labels) :
            \A u, s \in 1..Len(actual_labels[b]) :
                (/\ ~IsPositive(b, u)
                 /\ ~IsPositive(b, s)
                 /\ ~SelectedNegative(b, u)
                 /\ SelectedNegative(b, s))
                    => conf_loss_for_all[b][u] <= conf_loss_for_all[b][s]

\* An image with a positive keeps a background prior out of its negatives
\* although it comes before a selected one: its cross-entropy is strictly
\* smaller.
C11_Witness ==
    /\ ConfDone
    /\ \E b \in 1..Len(actual_labels) :
           \E u, s \in 1..Len(actual_labels[b]) :
               /\ PositiveCount(b) > 0
               /\ ~IsPositive(b, u)
               /\ ~IsPositive(b, s)
               /\ ~SelectedNegative(b, u)
               /\ SelectedNegative(b, s)
               /\ u < s
               /\ conf_loss_for_all[b][u] < conf_loss_for_all[b][s]

---------------------------------------------------------------------------
\* Properties of the losses on the targets of calculate_actual_outputs
\* (checked under SpecTraining).

\* Both losses were computed on targets of calculate_actual_outputs.
LossesOnTargets ==
    /\ Computed
    /\ LocDone
    /\ ConfDone

\* total_pos_bboxes of a loss with the given pos_cond (lines 21 and 48).
TotalPosBboxes(pos_cond) ==
    SumSeq([b \in 1..Len(pos_cond) |-> CountTrue(pos_cond[b])])

\* C12: on targets of calculate_actual_outputs a prior is positive for
\* loc_loss_fn if and only if it is positive for conf_loss_fn, so both
\* losses divide by the same total positive count.
C12_SamePositives ==
    LossesOnTargets =>
        /\ \A b \in 1..Len(gt_boxes) :
               \A n \in 1..Len(prior_boxes) :
                   loc_pos_cond[b][n] <=> conf_pos_cond[b][n]
        /\ TotalPosBboxes(loc_pos_cond) = TotalPosBboxes(conf_pos_cond)

\* The ground-truth box with the largest IoU with prior n in image b.
MatchedGtBox(b, n) ==
    gt_boxes[b][ArgMaxIoU(prior_boxes[n], gt_boxes[b])]

\* That box encodes to the all-zero delta against prior n.
EncodesToZero(b, n) ==
    get_deltas_from_bboxes(prior_boxes[n], MatchedGtBox(b, n)) = <<0, 0, 0, 0>>

\* C12, as the program behaves: a prior is positive for loc_loss_fn if and
\* only if it is positive for conf_loss_fn and its matched ground-truth box
\* does not encode to the all-zero delta; loc_loss_fn divides by the smaller
\* count exactly when some positive of conf_loss_fn has such a box.
C12_PositivesUpToZeroDelta ==
    LossesOnTargets =>
        /\ \A b \in 1..Len(gt_boxes) :
               \A n \in 1..Len(prior_boxes) :
                   loc_pos_cond[b][n] <=> (conf_pos_cond[b][n] /\ ~EncodesToZero(b, n))
        /\ TotalPosBboxes(loc_pos_cond) <= TotalPosBboxes(conf_pos_cond)
        /\ (TotalPosBboxes(loc_pos_cond) < TotalPosBboxes(conf_pos_cond)) <=>
               \E b \in 1..Len(gt_boxes) :
                   \E n \in 1..Len(prior_boxes) :
                       conf_pos_cond[b][n] /\ EncodesToZero(b, n)

\* Both losses ran on an image where one prior is matched to a box equal
\* to it (positive for conf_loss_fn only) and another to a different box
\* (positive for both).
C12_Witness ==
    /\ LossesOnTargets
    /\ \E b \in 1..Len(gt_boxes) :
        /\ \E n \in 1..Len(prior_boxes) :
            /\ MatchedGtBox(b, n) = prior_boxes[n]
            /\ conf_pos_cond[b][n]
            /\ ~loc_pos_cond[b][n]
        /\ \E n \in 1..Len(prior_boxes) :
            /\ MatchedGtBox(b, n) # prior_boxes[n]
            /\ conf_pos_cond[b][n]
            /\ loc_pos_cond[b][n]

====
